---- MODULE Spec2Model ----
(***************************************************************************)
(* A model of ctt's ContactDataset (src/ctt/data_loading/loader.py): the   *)
(* record-to-tensor encoder `get`, the degenerate-sample retry loop of     *)
(* `__getitem__`, the padding/masking collator `collate_fn`, and the file  *)
(* name parsing of `_read_data`; and of the legacy ContactDataset          *)
(* (src/loader.py), whose `get` encodes a record of an in-memory pickle.   *)
(*                                                                         *)
(* Conventions.                                                            *)
(*  - A numpy/torch array is a sequence; a 2-d array is a sequence of rows.*)
(*    Sequences are 1-based here, so source position j is position j+1.    *)
(*  - A float that the code obtains by division is an exact rational       *)
(*    <<numerator, denominator>> in lowest terms (Rat).                    *)
(*  - A dict is a record; the optional keys of a dict are listed in a      *)
(*    `*_keys` set, so that `key in dict` / dict.get(key, default) are     *)
(*    set membership tests.                                                *)
(*  - A row of `reported_symptoms` (28 channels the encoder never looks    *)
(*    into) is one opaque value; a health_history row is the pair          *)
(*    <<symptoms row, test result>>.                                       *)
(***************************************************************************)
EXTENDS Integers, Sequences, FiniteSets, TLC

VARIABLES
    \* ---- dataset configuration (ContactDataset.__init__) ----
    relative_days,        \* self.relative_days
    clip_history_days,    \* self.clip_history_days
    bit_encoded_messages, \* self.bit_encoded_messages
    byteorder,            \* byte order of the host's native uint16
    \* ---- record store (ContactDataset._read_data / read) ----
    num_humans,           \* self._num_humans
    num_days,             \* self._num_days
    day_idx_offset,       \* self._day_idx_offset
    store,                \* store[h][d]: kind of the record file of (human h, day d),
                          \* "missing" when the grid has no file for (h, d)
    path_kind,            \* what self.path is: "dir" | "zip", "none" when the
                          \* file names are not modelled
    files,                \* the names of the files under self.path
    human_idx_offset,     \* self._human_idx_offset
    constructed,          \* "no" | "ok" | "ValueError": how __init__ ended
    opened,               \* the file name read last built, << >> before
    data,                 \* self.data of the legacy loader (src/loader.py):
                          \* data[h][d], << >> when that loader is not in use
    \* ---- locals of one __getitem__ call ----
    pc,                   \* "idle" | "try" | "done" | "raised"
    item,                 \* the argument of __getitem__
    human_idx,
    day_idx,
    requested_day_idx,    \* _requested_day_idx
    num_fetch_attempts,
    attempts_on_human,    \* history: calls of get made for the current human_idx
    result,               \* what __getitem__ returned, <<>> before it returns
    \* ---- one call of get (encoder) ----
    human_day_info,       \* the raw record handed to get, <<>> when none
    outcome,              \* "none" | "returned" | "InvalidSetSize"
    sample,               \* the sample get returned, <<>> otherwise
    \* ---- one call of collate_fn ----
    batch,                \* the list of samples handed to collate_fn
    collates              \* what collate_fn returned, <<>> before it returns

cfgvars   == <<relative_days, clip_history_days, bit_encoded_messages, byteorder>>
storevars == <<num_humans, num_days, day_idx_offset, store,
               path_kind, files, human_idx_offset, constructed, opened, data>>
itemvars  == <<pc, item, human_idx, day_idx, requested_day_idx, num_fetch_attempts,
               attempts_on_human, result>>
getvars   == <<human_day_info, outcome, sample>>
collvars  == <<batch, collates>>
vars      == <<cfgvars, storevars, itemvars, getvars, collvars>>

----------------------------------------------------------------------------
(* Program constants *)

NUM_ID_BITS == 16
HISTORY_LEN == 14
DEFAULT_AGE == 0
ASSUMED_MAX_AGE == 100
ASSUMED_MIN_AGE == 1
DEFAULT_SEX == 0
ASSUMED_MAX_RISK == 15
ASSUMED_MIN_RISK == 0
NUM_PREEXISTING == 10
MAX_FETCH_ATTEMPTS == 5

DEFAULT_PREEXISTING_CONDITIONS == [i \in 1..NUM_PREEXISTING |-> 0]

SET_VALUED_FIELDS ==
    << "encounter_health", "encounter_message", "encounter_partner_id",
       "encounter_day", "encounter_duration", "encounter_is_contagion" >>

FIXED_SIZE_FIELDS ==
    { "human_idx", "day_idx", "health_history", "health_profile",
      "infectiousness_history", "history_days", "valid_history_mask",
      "current_compartment" }

----------------------------------------------------------------------------
(* Arithmetic helpers *)

Abs(x) == IF x < 0 THEN -x ELSE x

Max(a, b) == IF a >= b THEN a ELSE b

RECURSIVE Gcd(_, _)
Gcd(a, b) == IF b = 0 THEN a ELSE Gcd(b, a % b)

\* the float n / d, d > 0, as an exact rational in lowest terms
Rat(n, d) ==
    LET g == Gcd(Abs(n), d) IN << n \div g, d \div g >>

\* np.unpackbits of one uint8: its 8 bits, most significant first
UnpackByte(b) == [k \in 1..8 |-> (b \div 2^(8 - k)) % 2]

\* x.astype("uint16").view("uint8"): the two bytes of x in memory order
ViewBytes(x) ==
    LET u  == x % 2^NUM_ID_BITS
        lo == u % 256
        hi == u \div 256
    IN  IF byteorder = "little" THEN << lo, hi >> ELSE << hi, lo >>

\* np.unpackbits(ids.astype("uint16").view("uint8")).reshape(M, -1), one row
UnpackPartnerId(x) ==
    LET bytes == ViewBytes(x)
    IN  UnpackByte(bytes[1]) \o UnpackByte(bytes[2])

\* the rows of a sequence selected by a boolean mask, order kept (a[mask])
RECURSIVE SelectMask(_, _)
SelectMask(a, mask) ==
    IF a = << >> THEN << >>
    ELSE (IF Head(mask) THEN << Head(a) >> ELSE << >>)
         \o SelectMask(Tail(a), Tail(mask))

----------------------------------------------------------------------------
(* The encoder: ContactDataset.get and its _fetch_* helpers *)

ENCOUNTER_WINDOW == 14
BIT_ENCODED_AGE == FALSE

\* a filter that also keeps the encounters dated exactly 14 days back
ValidEncounterMask_Inclusive(info) ==
    [i \in 1..Len(info.candidate_encounters) |->
        info.candidate_encounters[i][4] >= info.current_day - ENCOUNTER_WINDOW]

\* encounter_info[:, 3] > (day_idx - 14), with day_idx = current_day
ValidEncounterMask(info) ==
    [i \in 1..Len(info.candidate_encounters) |->
        info.candidate_encounters[i][4] > info.current_day - ENCOUNTER_WINDOW]

\* the encounters get keeps: encounter_info[valid_encounter_mask]
ValidEncounters(info) ==
    SelectMask(info.candidate_encounters, ValidEncounterMask(info))

\* a get that checks the size only before the 14-day filter
InvalidSetSizeRaised_NoRecheck(info) ==
    Len(info.candidate_encounters) = 0

\* the two `raise InvalidSetSize` of get
InvalidSetSizeRaised(info) ==
    \/ Len(info.candidate_encounters) = 0
    \/ Len(ValidEncounters(info)) = 0

\* _fetch_encounter_message, on the message column of the kept encounters
_fetch_encounter_message(messages) ==
    IF bit_encoded_messages
    THEN [i \in 1..Len(messages) |-> UnpackByte(messages[i] % 256)]
    ELSE [i \in 1..Len(messages) |->
            << Rat(messages[i] - ASSUMED_MIN_RISK,
                   ASSUMED_MAX_RISK - ASSUMED_MIN_RISK) >>]

\* a default label column that is not cut down to the kept encounters
_fetch_encounter_is_contagion_unmasked(info, valid_encounter_mask) ==
    LET column == IF "exposure_encounter" \notin info.unobserved_keys
                  THEN [i \in 1..Len(valid_encounter_mask) |-> 0]
                  ELSE info.exposure_encounter
        kept   == IF "exposure_encounter" \notin info.unobserved_keys
                  THEN column
                  ELSE SelectMask(column, valid_encounter_mask)
    IN  [i \in 1..Len(kept) |-> << kept[i] >>]

\* _fetch_encounter_is_contagion
_fetch_encounter_is_contagion(info, valid_encounter_mask) ==
    LET column == IF "exposure_encounter" \notin info.unobserved_keys
                  THEN [i \in 1..Len(valid_encounter_mask) |-> 0]
                  ELSE info.exposure_encounter
        kept   == SelectMask(column, valid_encounter_mask)
    IN  [i \in 1..Len(kept) |-> << kept[i] >>]

\* _fetch_infectiousness_history: right-pad with zeros to 14 entries
_fetch_infectiousness_history(info) ==
    LET h == info.infectiousness
    IN  [i \in 1..Max(Len(h), HISTORY_LEN) |->
            << IF i <= Len(h) THEN h[i] ELSE 0 >>]

\* _fetch_age
_fetch_age(info) ==
    LET age == IF "age" \in info.observed_keys THEN info.age ELSE DEFAULT_AGE
    IN  IF BIT_ENCODED_AGE
        THEN IF age = -1 THEN [k \in 1..8 |-> -1] ELSE UnpackByte(age % 256)
        ELSE IF age = -1
             THEN << Rat(-1, 1) >>
             ELSE << Rat(age - ASSUMED_MIN_AGE,
                         ASSUMED_MAX_AGE - ASSUMED_MIN_AGE) >>

\* np.arange(day_idx - 13, day_idx + 1)[::-1, None]
HistoryDays(day) == [i \in 1..HISTORY_LEN |-> << day - (i - 1) >>]

\* an argmax that gives the last position when no history day matches
ArgmaxDay_NoMatchLast(e, history_days) ==
    LET hits == {i \in 1..Len(history_days) : history_days[i][1] = e}
    IN  IF hits = {} THEN Len(history_days)
        ELSE CHOOSE i \in hits : \A j \in hits : i <= j

\* np.argmax(encounter_day == history_days, axis=0) for one encounter day:
\* the first history position holding that day, the first position if none
ArgmaxDay(e, history_days) ==
    LET hits == {i \in 1..Len(history_days) : history_days[i][1] = e}
    IN  IF hits = {} THEN 1 ELSE CHOOSE i \in hits : \A j \in hits : i <= j

\* an if-chain that tests currently_infected before is_recovered
CurrentCompartment_InfectedFirst(info, infectiousness_history) ==
    LET currently_infected == infectiousness_history[1][1] > 0
        c == IF currently_infected THEN "I"
             ELSE IF info.is_recovered THEN "R"
             ELSE IF info.is_exposed THEN "E"
             ELSE "S"
        b(x) == IF x THEN 1 ELSE 0
    IN  << b(c = "S"), b(c = "E"), b(c = "I"), b(c = "R") >>

\* the S/E/I/R if-chain of get and its one-hot encoding (S, E, I, R)
CurrentCompartment(info, infectiousness_history) ==
    LET currently_infected == infectiousness_history[1][1] > 0
        c == IF info.is_recovered THEN "R"
             ELSE IF currently_infected THEN "I"
             ELSE IF info.is_exposed THEN "E"
             ELSE "S"
        b(x) == IF x THEN 1 ELSE 0
    IN  << b(c = "S"), b(c = "E"), b(c = "I"), b(c = "R") >>

\* np.clip(history_days, 0, None) when clip_history_days
ClipHistoryDays(history_days) ==
    IF clip_history_days
    THEN [i \in 1..Len(history_days) |-> << Max(history_days[i][1], 0) >>]
    ELSE history_days

\* history_days - day_idx when relative_days
RelativeHistoryDays(history_days, day) ==
    IF relative_days
    THEN [i \in 1..Len(history_days) |-> << history_days[i][1] - day >>]
    ELSE history_days

\* encounter_day - day_idx when relative_days, then [:, None]
RelativeEncounterDay(encounter_day, day) ==
    [i \in 1..Len(encounter_day) |->
        << IF relative_days THEN encounter_day[i] - day ELSE encounter_day[i] >>]

\* ContactDataset.get once the record is in hand and InvalidSetSize is not
\* raised (self.transforms is None, the default); `enc` is the local
\* encounter_info after the filter, evaluated once as in the code
get(h_idx, info) ==
    LET day    == info.current_day
        mask   == ValidEncounterMask(info)
        health_history ==
            [i \in 1..Len(info.reported_symptoms) |->
                << info.reported_symptoms[i], info.test_results[i] >>]
        infectiousness_history == _fetch_infectiousness_history(info)
        history_days == HistoryDays(day)
        sex    == IF "sex" \in info.observed_keys THEN info.sex ELSE DEFAULT_SEX
        preexisting ==
            IF "preexisting_conditions" \in info.observed_keys
            THEN info.preexisting_conditions
            ELSE DEFAULT_PREEXISTING_CONDITIONS
        Encode(enc) ==
          [ human_idx |-> << h_idx >>,
            day_idx |-> << day >>,
            health_history |-> health_history,
            health_profile |-> _fetch_age(info) \o << sex >> \o preexisting,
            infectiousness_history |-> infectiousness_history,
            history_days |-> RelativeHistoryDays(ClipHistoryDays(history_days), day),
            valid_history_mask |->
                [i \in 1..HISTORY_LEN |-> IF history_days[i][1] >= 0 THEN 1 ELSE 0],
            current_compartment |-> CurrentCompartment(info, infectiousness_history),
            encounter_health |->
                [i \in 1..Len(enc) |->
                    health_history[ArgmaxDay(enc[i][4], history_days)]],
            encounter_message |->
                _fetch_encounter_message([i \in 1..Len(enc) |-> enc[i][2]]),
            encounter_partner_id |->
                [i \in 1..Len(enc) |-> UnpackPartnerId(enc[i][1])],
            encounter_day |->
                RelativeEncounterDay([i \in 1..Len(enc) |-> enc[i][4]], day),
            encounter_duration |-> [i \in 1..Len(enc) |-> << enc[i][3] >>],
            encounter_is_contagion |-> _fetch_encounter_is_contagion(info, mask) ]
    IN  CHOOSE s \in { Encode(enc) : enc \in { ValidEncounters(info) } } : TRUE

----------------------------------------------------------------------------
(* The record store: ContactDataset._read_data / read *)

MaxHumans == 2
MaxDays == 8

DayOffsets == {-1, 0}

RecordKinds == {"empty", "stale", "fresh"}

\* one row of candidate_encounters: partner id, risk message, duration, day
Encounter(partner_id, message, duration, day) ==
    << partner_id, message, duration, day >>

\* a raw human-day record as the simulation writes it, with every optional
\* key present; reported_symptoms row i is the opaque value 100 + i
RawRecord(current_day, encounters, exposure) ==
    [ current_day |-> current_day,
      candidate_encounters |-> encounters,
      reported_symptoms |-> [i \in 1..HISTORY_LEN |-> 100 + i],
      test_results |-> [i \in 1..HISTORY_LEN |-> i % 2],
      observed_keys |-> {"age", "sex", "preexisting_conditions"},
      age |-> 34,
      sex |-> 1,
      preexisting_conditions |-> [i \in 1..NUM_PREEXISTING |-> IF i = 2 THEN 1 ELSE 0],
      unobserved_keys |-> {"exposure_encounter"},
      exposure_encounter |-> exposure,
      infectiousness |-> << 0 >>,
      is_recovered |-> FALSE,
      is_exposed |-> FALSE ]

\* the content of the record file of a given kind for a given current day
RecordOfKind(kind, current_day) ==
    LET stale == Encounter(1, 3, 10, current_day - ENCOUNTER_WINDOW)
        old   == Encounter(258, 15, 10, current_day - ENCOUNTER_WINDOW + 1)
        today == Encounter(65535, 255, 5, current_day)
    IN  CASE kind = "empty" -> RawRecord(current_day, << >>, << >>)
          [] kind = "stale" -> RawRecord(current_day, << stale >>, << 0 >>)
          [] kind = "fresh" -> RawRecord(current_day, << stale, old, today >>,
                                         << 0, 1, 0 >>)

\* ContactDataset.read: the record stored under
\* f"{day_idx + self._day_idx_offset}-{human_idx + self._human_idx_offset}.pkl"
read(h_idx, d_idx) ==
    RecordOfKind(store[h_idx][d_idx], d_idx + day_idx_offset)

\* ContactDataset.__len__
__len__ == num_humans * num_days

\* what self.get(human_idx, day_idx) raises: the lookup failure of read when
\* no file is stored under the name (FileNotFoundError for a directory,
\* KeyError for an archive), InvalidSetSize, or nothing
get_raises(h_idx, d_idx) ==
    IF store[h_idx][d_idx] = "missing" THEN "LookupError"
    ELSE IF InvalidSetSizeRaised(read(h_idx, d_idx)) THEN "InvalidSetSize"
    ELSE "none"

\* a fully populated grid with the cells of `fresh` holding usable records
\* and every other cell a degenerate one (empty or fully stale)
GridWith(H, D, fresh) ==
    [h \in 0..(H - 1) |-> [d \in 0..(D - 1) |->
        IF << h, d >> \in fresh THEN "fresh"
        ELSE IF (h + d) % 2 = 0 THEN "empty" ELSE "stale"]]

\* the grids considered: all records degenerate, or exactly one usable record
Grids(H, D) ==
    { GridWith(H, D, {}) }
        \cup { GridWith(H, D, {c}) : c \in (0..(H - 1)) \X (0..(D - 1)) }

\* a grid of degenerate records with the cells of `fresh` usable and the
\* cells of `missing` without a file
GridWithout(H, D, fresh, missing) ==
    [h \in 0..(H - 1) |-> [d \in 0..(D - 1) |->
        IF << h, d >> \in missing THEN "missing"
        ELSE GridWith(H, D, fresh)[h][d]]]

\* the sparse grids considered: one cell without a file, every other record
\* degenerate except possibly the one of (human 0, day 0)
SparseGrids(H, D) ==
    { GridWithout(H, D, fresh, {c}) :
        fresh \in { {}, {<< 0, 0 >>} },
        c \in ((0..(H - 1)) \X (0..(D - 1))) \ {<< 0, 0 >>} }

InitConfigDefault ==
    /\ relative_days = TRUE
    /\ clip_history_days = FALSE
    /\ bit_encoded_messages = TRUE
    /\ byteorder = "little"

\* the dataset is constructed and its file names are not looked into; the
\* legacy loader is not in use
InitNoFiles ==
    /\ data = << >>
    /\ path_kind = "none"
    /\ files = {}
    /\ human_idx_offset = 0
    /\ constructed = "ok"
    /\ opened = << >>

InitStore ==
    /\ num_humans \in 1..MaxHumans
    /\ num_days \in 1..MaxDays
    /\ day_idx_offset \in DayOffsets
    /\ store \in Grids(num_humans, num_days)
    /\ InitNoFiles

InitNoStore ==
    /\ num_humans = 1
    /\ num_days = 1
    /\ day_idx_offset = 0
    /\ store = << >>
    /\ InitNoFiles

InitItemIdle ==
    /\ pc = "idle"
    /\ item = 0
    /\ human_idx = 0
    /\ day_idx = 0
    /\ requested_day_idx = 0
    /\ num_fetch_attempts = 0
    /\ attempts_on_human = 0
    /\ result = << >>

InitGetIdle ==
    /\ human_day_info = << >>
    /\ outcome = "none"
    /\ sample = << >>

InitCollateIdle ==
    /\ batch = << >>
    /\ collates = << >>

----------------------------------------------------------------------------
(* Item access: ContactDataset.__getitem__ *)

\* `num_fetch_attempts > 5`
Exhausted(n) == n > MAX_FETCH_ATTEMPTS

\* an unravelling in column-major order
unravel_index_ColumnMajor(it) == << it % num_humans, it \div num_humans >>

\* np.unravel_index(item, (num_humans, num_days))
unravel_index(it) == << it \div num_days, it % num_days >>

\* an except clause that catches every exception
ExceptCatches_Any(exc) == TRUE

\* `except InvalidSetSize:`
ExceptCatches(exc) == exc = "InvalidSetSize"

\* a retry loop that never moves on to another human
OnInvalidSetSize_SameHuman(h, d, n) ==
    LET d1 == IF Exhausted(n) THEN requested_day_idx ELSE d
        n1 == IF Exhausted(n) THEN 0 ELSE n
    IN  << h, (d1 + 1) % num_days, n1 + 1 >>

\* the except-branch of the retry loop: the locals after one InvalidSetSize,
\* as << human_idx, day_idx, num_fetch_attempts >>
OnInvalidSetSize(h, d, n) ==
    LET h1 == IF Exhausted(n) THEN (h + 1) % num_humans ELSE h
        d1 == IF Exhausted(n) THEN requested_day_idx ELSE d
        n1 == IF Exhausted(n) THEN 0 ELSE n
    IN  << h1, (d1 + 1) % num_days, n1 + 1 >>

\* __getitem__(item) up to the head of its while-loop
__getitem__(it) ==
    /\ pc = "idle"
    /\ item' = it
    /\ human_idx' = unravel_index(it)[1]
    /\ day_idx' = unravel_index(it)[2]
    /\ requested_day_idx' = unravel_index(it)[2]
    /\ num_fetch_attempts' = 0
    /\ attempts_on_human' = 0
    /\ result' = << >>
    /\ pc' = "try"
    /\ UNCHANGED << cfgvars, storevars, getvars, collvars >>

\* one iteration of the while-loop: try get, return it, handle InvalidSetSize,
\* or let any other exception leave __getitem__
Iterate ==
    /\ pc = "try"
    /\ \E exc \in { get_raises(human_idx, day_idx) } :
           IF exc = "none"
           THEN /\ \E info \in { read(human_idx, day_idx) } :
                      result' = get(human_idx, info)
                /\ pc' = "done"
                /\ attempts_on_human' = attempts_on_human + 1
                /\ UNCHANGED << human_idx, day_idx, num_fetch_attempts >>
           ELSE IF ~ExceptCatches(exc)
           THEN /\ pc' = "raised"
                /\ attempts_on_human' = attempts_on_human + 1
                /\ UNCHANGED << human_idx, day_idx, num_fetch_attempts, result >>
           ELSE LET nxt == OnInvalidSetSize(human_idx, day_idx, num_fetch_attempts)
                IN  /\ human_idx' = nxt[1]
                    /\ day_idx' = nxt[2]
                    /\ num_fetch_attempts' = nxt[3]
                    /\ attempts_on_human' =
                          IF Exhausted(num_fetch_attempts) THEN 0
                          ELSE attempts_on_human + 1
                    /\ UNCHANGED << pc, result >>
    /\ UNCHANGED << item, requested_day_idx, cfgvars, storevars, getvars, collvars >>

\* the caller takes the sample or the exception; the dataset is ready for
\* the next item
Return ==
    /\ pc \in {"done", "raised"}
    /\ pc' = "idle"
    /\ item' = 0
    /\ human_idx' = 0
    /\ day_idx' = 0
    /\ requested_day_idx' = 0
    /\ num_fetch_attempts' = 0
    /\ attempts_on_human' = 0
    /\ result' = << >>
    /\ UNCHANGED << cfgvars, storevars, getvars, collvars >>

Init ==
    /\ InitConfigDefault
    /\ InitStore
    /\ InitItemIdle
    /\ InitGetIdle
    /\ InitCollateIdle

Next ==
    \/ \E it \in 0..(__len__ - 1) : __getitem__(it)
    \/ Iterate
    \/ Return

Spec == Init /\ [][Next]_vars

\* the interpreter keeps running the loop body: an iteration that can be
\* taken is taken
FairSpec == Spec /\ WF_vars(Iterate)

\* item access over a sparse grid: some (human, day) of the
\* num_humans x num_days rectangle has no record file
InitSparse ==
    /\ InitConfigDefault
    /\ num_humans \in 1..MaxHumans
    /\ num_days \in 1..MaxDays
    /\ num_humans * num_days >= 2
    /\ day_idx_offset \in DayOffsets
    /\ store \in SparseGrids(num_humans, num_days)
    /\ InitNoFiles
    /\ InitItemIdle
    /\ InitGetIdle
    /\ InitCollateIdle

SpecSparse == InitSparse /\ [][Next]_vars

----------------------------------------------------------------------------
(* Properties of item access *)

Humans == 0..(num_humans - 1)
Days == 0..(num_days - 1)

\* the record has an encounter inside the trailing 14-day window
NonDegenerate(info) ==
    \E i \in 1..Len(info.candidate_encounters) :
        info.candidate_encounters[i][4] > info.current_day - 14

RequestedIndex == << item \div num_days, item % num_days >>

\* the grid index of the record the returned sample was encoded from
ReturnedIndex == << result.human_idx[1], result.day_idx[1] - day_idx_offset >>

\* C1: whenever __getitem__ returns, the sample is the encoding of a record
\* of the grid with at least one encounter inside the 14-day window (M >= 1),
\* and if the record at the requested index is degenerate the sample comes
\* from another index.
C1_ReturnedSampleNonDegenerate ==
    pc = "done" =>
        /\ ReturnedIndex \in Humans \X Days
        /\ NonDegenerate(read(ReturnedIndex[1], ReturnedIndex[2]))
        /\ result = get(ReturnedIndex[1], read(ReturnedIndex[1], ReturnedIndex[2]))
        /\ Len(result.encounter_health) >= 1
        /\ (~NonDegenerate(read(RequestedIndex[1], RequestedIndex[2]))
               => ReturnedIndex # RequestedIndex)

\* a degenerate index was requested and a sample of another index came back
C1_Witness ==
    /\ pc = "done"
    /\ ~NonDegenerate(read(RequestedIndex[1], RequestedIndex[2]))
    /\ ReturnedIndex # RequestedIndex

SomeRecordNonDegenerate ==
    \E h \in Humans, d \in Days : NonDegenerate(read(h, d))

\* the records the retry loop ever reads for the current item: the requested
\* one, and for every human the six days after the requested day
WalkReachesNonDegenerate ==
    \/ NonDegenerate(read(RequestedIndex[1], RequestedIndex[2]))
    \/ \E h \in Humans, k \in 1..6 :
          NonDegenerate(read(h, (RequestedIndex[2] + k) % num_days))

\* C2 (as stated): if any record of the grid is non-degenerate, __getitem__
\* eventually returns, for every item.
C2_Original ==
    (pc = "try" /\ SomeRecordNonDegenerate) ~> (pc = "done")

\* C2 (amended): __getitem__(item) eventually returns if and only if the
\* requested record, or a record of any human on one of the six days that
\* follow the requested day (modulo num_days), is non-degenerate.
C2_ReturnsIffWalkReaches ==
    /\ (pc = "try" /\ WalkReachesNonDegenerate) ~> (pc = "done")
    /\ [](pc = "done" => WalkReachesNonDegenerate)

\* a call that had to move on to another human before it could return
C2_Witness ==
    /\ pc = "done"
    /\ WalkReachesNonDegenerate
    /\ ReturnedIndex[1] # RequestedIndex[1]

\* C3: when the attempts for the current human are exhausted, the next
\* record attempted is (next human, originally requested day).
C3_Original ==
    [][ ( /\ pc = "try"
          /\ InvalidSetSizeRaised(read(human_idx, day_idx))
          /\ Exhausted(num_fetch_attempts) )
        => ( /\ human_idx' = (human_idx + 1) % num_humans
             /\ day_idx' = requested_day_idx ) ]_vars

\* C4: a failure that does not exhaust the human is retried on the next day
\* (modulo num_days) of the same human, and no human, the requested one
\* included, is attempted more than 6 times in a row.
C4_Original ==
    /\ [][ ( /\ pc = "try"
             /\ InvalidSetSizeRaised(read(human_idx, day_idx))
             /\ ~Exhausted(num_fetch_attempts) )
           => ( /\ human_idx' = human_idx
                /\ day_idx' = (day_idx + 1) % num_days ) ]_vars
    /\ [](attempts_on_human <= 6)

\* C13: when the (human, day) being attempted has no backing record, the
\* lookup failure leaves __getitem__ at once, with no sample and no move to
\* another index; the index is only ever changed after an InvalidSetSize.
C13_LookupFailurePropagates ==
    /\ [][ (pc = "try" /\ store[human_idx][day_idx] = "missing")
           => ( /\ pc' = "raised"
                /\ result' = << >>
                /\ human_idx' = human_idx
                /\ day_idx' = day_idx
                /\ num_fetch_attempts' = num_fetch_attempts ) ]_vars
    /\ [][ ( /\ pc = "try"
             /\ \/ human_idx' # human_idx
                \/ day_idx' # day_idx
                \/ num_fetch_attempts' # num_fetch_attempts )
           => ( /\ store[human_idx][day_idx] # "missing"
                /\ InvalidSetSizeRaised(read(human_idx, day_idx))
                /\ pc' = "try" ) ]_vars
    /\ [](pc = "raised" => store[human_idx][day_idx] = "missing")

\* the lookup failed in the middle of the walk, on another human than the
\* requested one
C13_Witness ==
    /\ pc = "raised"
    /\ num_fetch_attempts >= 1
    /\ human_idx # RequestedIndex[1]
    /\ store[human_idx][day_idx] = "missing"

\* C15: when the record at the requested index is non-degenerate,
\* __getitem__(item) returns the encoding of the record of human
\* item div num_days on day item mod num_days, at the first attempt and with
\* no substitution; the first-attempted (human, day) of the items of
\* [0, num_humans * num_days) map one-to-one onto the grid.
C15_RequestedRecordReturned ==
    /\ (pc = "try" /\ num_fetch_attempts = 0 /\ attempts_on_human = 0)
          => << human_idx, day_idx >> = << item \div num_days, item % num_days >>
    /\ (pc = "done" /\ NonDegenerate(read(item \div num_days, item % num_days)))
          => /\ attempts_on_human = 1
             /\ num_fetch_attempts = 0
             /\ ReturnedIndex = << item \div num_days, item % num_days >>
             /\ result = get(item \div num_days,
                             read(item \div num_days, item % num_days))
    /\ \A c \in Humans \X Days :
          Cardinality({ it \in 0..(__len__ - 1) : unravel_index(it) = c }) = 1

\* the usable record of a later human on a later day was requested and
\* came back
C15_Witness ==
    /\ pc = "done"
    /\ item \div num_days >= 1
    /\ item % num_days >= 1
    /\ NonDegenerate(read(item \div num_days, item % num_days))
    /\ result.human_idx = << item \div num_days >>

----------------------------------------------------------------------------
(* One call of the encoder on a record in hand:                            *)
(* ContactPreprocessor.preprocess(human_day_info, as_batch=False), that is *)
(* get(None, None, human_day_info)                                         *)

MaxEncounters == 2

CurrentDays == {-1, 2, 20}

\* the encounters a record's candidate_encounters is drawn from, for a
\* record of day c: out of the window, oldest day of the window, yesterday,
\* today, and one dated after the record
EncounterPool(c) ==
    { Encounter(1, 3, 10, c - ENCOUNTER_WINDOW),
      Encounter(258, 15, 10, c - ENCOUNTER_WINDOW + 1),
      Encounter(256, 0, 15, c - 1),
      Encounter(65535, 255, 5, c),
      Encounter(513, 16, 20, c + 1) }

RECURSIVE SeqsUpTo(_, _)
SeqsUpTo(S, n) ==
    IF n = 0 THEN { << >> }
    ELSE LET P == SeqsUpTo(S, n - 1)
         IN  P \cup { Append(p, x) : p \in { q \in P : Len(q) = n - 1 }, x \in S }

\* the exposure ground truth: absent, present and all zero, present with
\* every other encounter a contagion
ExposureOptions ==
    { << {}, FALSE >>, << {"exposure_encounter"}, FALSE >>,
      << {"exposure_encounter"}, TRUE >> }

\* records that differ in their encounters and in the exposure ground truth
EncounterRecords ==
    UNION { { [ RawRecord(c, encs,
                          [i \in 1..Len(encs) |-> IF opt[2] THEN i % 2 ELSE 0])
                  EXCEPT !.unobserved_keys = opt[1] ] :
                encs \in SeqsUpTo(EncounterPool(c), MaxEncounters),
                opt \in ExposureOptions } :
            c \in CurrentDays }

\* records that differ in the profile and in the epidemic ground truth
ProfileRecords ==
    { [ RawRecord(c, << Encounter(7, 9, 10, c) >>, << 1 >>)
          EXCEPT !.observed_keys = keys, !.age = age,
                 !.is_recovered = rec, !.is_exposed = ex, !.infectiousness = inf ] :
        c \in CurrentDays,
        keys \in { {}, {"age"}, {"age", "sex", "preexisting_conditions"} },
        age \in { -1, 1, 50, 100 },
        rec \in BOOLEAN, ex \in BOOLEAN,
        inf \in { << >>, << 0, 2 >>, << 3 >> } }

InitConfigAny ==
    /\ relative_days \in BOOLEAN
    /\ clip_history_days \in BOOLEAN
    /\ bit_encoded_messages \in BOOLEAN
    /\ byteorder \in {"little", "big"}

InitGet ==
    /\ InitConfigAny
    /\ InitNoStore
    /\ InitItemIdle
    /\ InitCollateIdle
    /\ human_day_info \in EncounterRecords \cup ProfileRecords
    /\ outcome = "none"
    /\ sample = << >>

\* get(None, None, human_day_info): human_idx None becomes -1
preprocess ==
    /\ outcome = "none"
    /\ IF InvalidSetSizeRaised(human_day_info)
       THEN /\ outcome' = "InvalidSetSize"
            /\ sample' = << >>
       ELSE /\ outcome' = "returned"
            /\ sample' = get(-1, human_day_info)
    /\ UNCHANGED << human_day_info, cfgvars, storevars, itemvars, collvars >>

NextGet == preprocess

SpecGet == InitGet /\ [][NextGet]_vars

----------------------------------------------------------------------------
(* Properties of the encoder *)

\* how many candidate encounters lie inside the trailing 14-day window
NumRetained(info) ==
    Cardinality({ i \in 1..Len(info.candidate_encounters) :
                    info.candidate_encounters[i][4] > info.current_day - 14 })

\* C7: every sample get returns has the same leading dimension M in all six
\* set-valued fields, M being the number of encounters the 14-day filter
\* retains and M >= 1, with or without the exposure_encounter ground truth.
C7_SetValuedFieldsShareM ==
    outcome = "returned" =>
        /\ NumRetained(human_day_info) >= 1
        /\ \A k \in 1..Len(SET_VALUED_FIELDS) :
              Len(sample[SET_VALUED_FIELDS[k]]) = NumRetained(human_day_info)

\* a returned sample of a record without ground truth that lost an encounter
\* to the filter
C7_Witness ==
    /\ outcome = "returned"
    /\ "exposure_encounter" \notin human_day_info.unobserved_keys
    /\ NumRetained(human_day_info) < Len(human_day_info.candidate_encounters)

\* the integer a row of bits spells, first entry most significant
RECURSIVE PackBits(_)
PackBits(bits) ==
    IF bits = << >> THEN 0
    ELSE Head(bits) * 2^(Len(bits) - 1) + PackBits(Tail(bits))

\* C8: for every partner id in [0, 65535] the encounter_partner_id row is the
\* 16-bit big-endian binary representation of the id: read as a binary number,
\* first entry most significant, it gives the id back.
C8_Original ==
    outcome = "returned" =>
        LET kept == ValidEncounters(human_day_info)
        IN  \A i \in 1..Len(kept) :
              /\ Len(sample.encounter_partner_id[i]) = 16
              /\ kept[i][1] \in 0..65535
              /\ PackBits(sample.encounter_partner_id[i]) = kept[i][1]

\* C9: with relative_days, history_days[0] is 0 after encoding, for every
\* current_day (negative ones included) and either clip_history_days.
C9_Original ==
    (outcome = "returned" /\ relative_days) => sample.history_days[1][1] = 0

\* C10: in continuous age mode, an observed age of -1 and a record with no
\* age field both give -1 in the age channel of health_profile.
C10_Original ==
    ( /\ outcome = "returned"
      /\ ~BIT_ENCODED_AGE
      /\ \/ "age" \notin human_day_info.observed_keys
         \/ human_day_info.age = -1 )
    => sample.health_profile[1] = << -1, 1 >>

\* C11: current_compartment is a one-hot vector over (S, E, I, R) with exactly
\* one entry equal to 1, chosen by first match in the order recovered,
\* currently infected (infectiousness_history[0] > 0), exposed, susceptible:
\* recovered and infected gives R, none of the three gives S.
C11_CompartmentByPriority ==
    outcome = "returned" =>
        LET recovered == human_day_info.is_recovered
            infected  == sample.infectiousness_history[1][1] > 0
            exposed   == human_day_info.is_exposed
            cc        == sample.current_compartment
        IN  /\ Len(cc) = 4
            /\ \A k \in 1..4 : cc[k] \in {0, 1}
            /\ Cardinality({ k \in 1..4 : cc[k] = 1 }) = 1
            /\ (cc[4] = 1) <=> recovered
            /\ (cc[3] = 1) <=> (~recovered /\ infected)
            /\ (cc[2] = 1) <=> (~recovered /\ ~infected /\ exposed)
            /\ (cc[1] = 1) <=> (~recovered /\ ~infected /\ ~exposed)

\* a record both recovered and currently infected, reported as R
C11_Witness ==
    /\ outcome = "returned"
    /\ human_day_info.is_recovered
    /\ human_day_info.is_exposed
    /\ sample.infectiousness_history[1][1] > 0
    /\ sample.current_compartment = << 0, 0, 0, 1 >>

\* C12: get raises InvalidSetSize exactly when no candidate encounter has
\* encounter_day > current_day - 14 (an empty candidate_encounters included);
\* otherwise the encounter rows of the sample are exactly the encounters that
\* pass that filter, in their original order, and nothing else.
C12_RaisesIffNoneRetained ==
    outcome # "none" =>
        LET cand    == human_day_info.candidate_encounters
            day     == human_day_info.current_day
            passing == { j \in 1..Len(cand) : cand[j][4] > day - 14 }
            nth(i)  == CHOOSE j \in passing :
                          Cardinality({ k \in passing : k <= j }) = i
        IN  /\ (outcome = "InvalidSetSize") <=> (passing = {})
            /\ outcome = "returned" =>
                  /\ \A k \in 1..Len(SET_VALUED_FIELDS) :
                        Len(sample[SET_VALUED_FIELDS[k]]) = Cardinality(passing)
                  /\ \A i \in 1..Cardinality(passing) :
                        /\ sample.encounter_partner_id[i] =
                              UnpackPartnerId(cand[nth(i)][1])
                        /\ sample.encounter_message[i] =
                              _fetch_encounter_message(<< cand[nth(i)][2] >>)[1]
                        /\ sample.encounter_duration[i] = << cand[nth(i)][3] >>
                        /\ sample.encounter_day[i] =
                              << cand[nth(i)][4] - (IF relative_days THEN day ELSE 0) >>
                        /\ sample.encounter_is_contagion[i] =
                              << IF "exposure_encounter" \in human_day_info.unobserved_keys
                                 THEN human_day_info.exposure_encounter[nth(i)]
                                 ELSE 0 >>

\* a returned sample whose only row is the second candidate encounter, the
\* first one being dated exactly 14 days before the record
C12_Witness ==
    /\ outcome = "returned"
    /\ Len(human_day_info.candidate_encounters) = 2
    /\ human_day_info.candidate_encounters[1][4] = human_day_info.current_day - 14
    /\ Len(sample.encounter_duration) = 1
    /\ sample.encounter_duration[1] = << human_day_info.candidate_encounters[2][3] >>

\* C16: for a retained encounter of day e in a record of current day d, the
\* encounter_health row is health_history row d - e (counted from 0) when
\* d - 13 <= e <= d, and health_history row 0 when e matches no history day
\* (e > d), whatever relative_days and clip_history_days are.
C16_EncounterHealthRow ==
    outcome = "returned" =>
        LET d      == human_day_info.current_day
            kept   == ValidEncounters(human_day_info)
            row(k) == << human_day_info.reported_symptoms[k + 1],
                         human_day_info.test_results[k + 1] >>
        IN  /\ Len(sample.encounter_health) = Len(kept)
            /\ \A i \in 1..Len(kept) :
                  sample.encounter_health[i] =
                      IF d - 13 <= kept[i][4] /\ kept[i][4] <= d
                      THEN row(d - kept[i][4])
                      ELSE row(0)

\* with clipping and relative days both on, a sample of a record of day -1
\* whose first encounter is 13 days old and whose second is dated after it
C16_Witness ==
    /\ outcome = "returned"
    /\ relative_days
    /\ clip_history_days
    /\ human_day_info.current_day = -1
    /\ Len(sample.encounter_health) = 2
    /\ sample.encounter_day = << << -13 >>, << 1 >> >>
    /\ sample.encounter_health[1] = sample.health_history[14]
    /\ sample.encounter_health[2] = sample.health_history[1]


MaxBatch == 3

\* max([...]) of a non-empty list of integers
MaxOf(xs) == CHOOSE m \in { xs[i] : i \in 1..Len(xs) } :
                \A i \in 1..Len(xs) : xs[i] <= m

\* [x[cls.SET_VALUED_FIELDS[0]].shape[0] for x in batch]
SetLens(b) == [i \in 1..Len(b) |-> Len(b[i][SET_VALUED_FIELDS[1]])]

\* the zero row pad_sequence appends to the sequences of one field: zeros of
\* the trailing shape of the field's first sequence
ZeroRow(b, key) ==
    IF key = "encounter_message" /\ ~bit_encoded_messages
    THEN << Rat(0, 1) >>
    ELSE [k \in 1..Len(b[1][key][1]) |-> 0]

\* a mask whose comparison is <= where the code has <
Mask_OffByOne(b) ==
    [i \in 1..Len(b) |-> [j \in 1..MaxOf(SetLens(b)) |->
        IF (j - 1) <= SetLens(b)[i] THEN 1 ELSE 0]]

\* torch.arange(max_set_len).expand(len(batch), max_set_len)
\*      .lt(set_lens[:, None]).float()
Mask(b) ==
    [i \in 1..Len(b) |-> [j \in 1..MaxOf(SetLens(b)) |->
        IF (j - 1) < SetLens(b)[i] THEN 1 ELSE 0]]

\* a padding that puts the zero rows in front of the sample's rows
pad_sequence_left(b, key) ==
    LET longest == MaxOf([i \in 1..Len(b) |-> Len(b[i][key])])
    IN  [i \in 1..Len(b) |-> [j \in 1..longest |->
            IF j > longest - Len(b[i][key])
            THEN b[i][key][j - (longest - Len(b[i][key]))]
            ELSE ZeroRow(b, key)]]

\* pad_sequence([x[key] for x in batch], batch_first=True)
pad_sequence(b, key) ==
    LET longest == MaxOf([i \in 1..Len(b) |-> Len(b[i][key])])
    IN  [i \in 1..Len(b) |-> [j \in 1..longest |->
            IF j <= Len(b[i][key]) THEN b[i][key][j] ELSE ZeroRow(b, key)]]

\* torch.stack([x[key] for x in batch], dim=0)
Stack(b, key) == [i \in 1..Len(b) |-> b[i][key]]

SetValuedKeys == { SET_VALUED_FIELDS[k] : k \in 1..Len(SET_VALUED_FIELDS) }

\* ContactDataset.collate_fn(batch) for a non-empty batch
collate_fn(b) ==
    [key \in {"mask"} \cup DOMAIN b[1] |->
        IF key = "mask" THEN Mask(b)
        ELSE IF key \in SetValuedKeys THEN pad_sequence(b, key)
        ELSE Stack(b, key)]

\* the records a loader draws a batch from: current day 20, one encounter out
\* of the window followed by m encounters inside it, with or without the
\* exposure ground truth
BatchRecord(m, keys) ==
    LET c     == 20
        fresh == << Encounter(258, 15, 10, c - ENCOUNTER_WINDOW + 1),
                    Encounter(256, 0, 15, c - 1),
                    Encounter(65535, 255, 5, c) >>
        encs  == << Encounter(1, 3, 10, c - ENCOUNTER_WINDOW) >>
                 \o [i \in 1..m |-> fresh[((i - 1) % 3) + 1]]
    IN  [ RawRecord(c, encs, [i \in 1..Len(encs) |-> (i + 1) % 2])
            EXCEPT !.unobserved_keys = keys ]

BatchRecords ==
    { BatchRecord(m, {"exposure_encounter"}) : m \in 1..(MaxEncounters + 1) }
        \cup { BatchRecord(1, {}) }

InitCollate ==
    /\ relative_days \in BOOLEAN
    /\ bit_encoded_messages \in BOOLEAN
    /\ clip_history_days = FALSE
    /\ byteorder = "little"
    /\ InitNoStore
    /\ InitItemIdle
    /\ InitGetIdle
    /\ InitCollateIdle

\* the loader fetches one more sample of the batch
Fetch(info) ==
    /\ collates = << >>
    /\ Len(batch) < MaxBatch
    /\ ~InvalidSetSizeRaised(info)
    /\ batch' = Append(batch, get(-1, info))
    /\ UNCHANGED << collates, cfgvars, storevars, itemvars, getvars >>

\* the loader hands the batch to collate_fn
Collate ==
    /\ collates = << >>
    /\ Len(batch) >= 1
    /\ collates' = collate_fn(batch)
    /\ UNCHANGED << batch, cfgvars, storevars, itemvars, getvars >>

NextCollate ==
    \/ \E info \in BatchRecords : Fetch(info)
    \/ Collate

SpecCollate == InitCollate /\ [][NextCollate]_vars

----------------------------------------------------------------------------
(* Properties of the collator *)

Collated == collates # << >>

\* the encounter count of sample i of the batch
M(i) == Len(batch[i].encounter_health)

MaxM == CHOOSE m \in { M(i) : i \in 1..Len(batch) } :
            \A i \in 1..Len(batch) : M(i) <= m

RECURSIVE SumSeq(_)
SumSeq(xs) == IF xs = << >> THEN 0 ELSE Head(xs) + SumSeq(Tail(xs))

\* C5: the mask has shape (batch, max_M), entry (i, j) is 1 iff sample i has
\* at least j+1 encounters (j counted from 0) and 0 otherwise; each row sums
\* to the sample's encounter count and is ones followed by zeros.
C5_MaskMarksEncounters ==
    Collated =>
        /\ Len(collates.mask) = Len(batch)
        /\ \A i \in 1..Len(batch) :
              /\ Len(collates.mask[i]) = MaxM
              /\ \A j \in 1..MaxM :
                    /\ collates.mask[i][j] \in {0, 1}
                    /\ (collates.mask[i][j] = 1) <=> (M(i) >= j)
              /\ SumSeq(collates.mask[i]) = M(i)
              /\ \A j \in 1..(MaxM - 1) :
                    collates.mask[i][j] >= collates.mask[i][j + 1]

\* a collated batch in which some sample is shorter than the longest
C5_Witness ==
    /\ Collated
    /\ Len(batch) >= 2
    /\ \E i \in 1..Len(batch) : M(i) < MaxM /\ collates.mask[i][MaxM] = 0

\* every entry of the row is the number zero
IsZeroRow(key, row) ==
    IF key = "encounter_message" /\ ~bit_encoded_messages
    THEN row = << << 0, 1 >> >>
    ELSE \A k \in 1..Len(row) : row[k] = 0

\* C6: every set-valued field of sample i comes out with max_M rows, the
\* first M_i the sample's own rows in order and the rest all zero, so that
\* padding sits exactly where the mask is 0; every other field is stacked,
\* batch[key][i] being sample i's field.
C6_PaddedAndStacked ==
    Collated =>
        /\ DOMAIN collates = {"mask"} \cup SetValuedKeys \cup FIXED_SIZE_FIELDS
        /\ \A key \in SetValuedKeys :
              /\ Len(collates[key]) = Len(batch)
              /\ \A i \in 1..Len(batch) :
                    /\ Len(collates[key][i]) = MaxM
                    /\ \A j \in 1..MaxM :
                          IF collates.mask[i][j] = 1
                          THEN /\ j <= M(i)
                               /\ collates[key][i][j] = batch[i][key][j]
                          ELSE /\ j > M(i)
                               /\ IsZeroRow(key, collates[key][i][j])
        /\ \A key \in FIXED_SIZE_FIELDS :
              /\ Len(collates[key]) = Len(batch)
              /\ \A i \in 1..Len(batch) : collates[key][i] = batch[i][key]

\* a collated batch in which a sample was padded by at least two rows
C6_Witness ==
    /\ Collated
    /\ \E i \in 1..Len(batch) :
          /\ M(i) + 2 <= MaxM
          /\ IsZeroRow("encounter_day", collates.encounter_day[i][MaxM])

----------------------------------------------------------------------------
(* Construction from record files: ContactDataset._read_data, and the file *)
(* name ContactDataset.read builds.  A str is a sequence of one-character  *)
(* strings; `files` holds base names.                                      *)

MaxFileDay == 1

FileDays == (-2)..MaxFileDay
FileHumans == {99, 100}

Digits == << "0", "1", "2", "3", "4", "5", "6", "7", "8", "9" >>

DigitSet == { Digits[k] : k \in 1..10 }

\* format of a non-negative integer in an f-string
RECURSIVE str_digits(_)
str_digits(n) ==
    IF n < 10 THEN << Digits[n + 1] >>
    ELSE str_digits(n \div 10) \o << Digits[(n % 10) + 1] >>

\* f"{n}"
str(n) == IF n < 0 THEN << "-" >> \o str_digits(-n) ELSE str_digits(n)

\* f"{day}-{human}.pkl"
file_name(day, human) ==
    str(day) \o << "-" >> \o str(human) \o << ".", "p", "k", "l" >>

\* s.lstrip(chars)
RECURSIVE lstrip(_, _)
lstrip(s, chars) ==
    IF s # << >> /\ Head(s) \in chars THEN lstrip(Tail(s), chars) ELSE s

\* s.rstrip(chars)
RECURSIVE rstrip(_, _)
rstrip(s, chars) ==
    IF s # << >> /\ s[Len(s)] \in chars
    THEN rstrip(SubSeq(s, 1, Len(s) - 1), chars)
    ELSE s

\* s.strip(chars): drops every leading and trailing character of `chars`
strip(s, chars) == rstrip(lstrip(s, chars), chars)

\* s.split(sep) for a one-character sep
RECURSIVE split(_, _)
split(s, sep) ==
    IF s = << >> THEN << << >> >>
    ELSE LET rest == split(Tail(s), sep)
         IN  IF Head(s) = sep
             THEN << << >> >> \o rest
             ELSE << << Head(s) >> \o rest[1] >> \o Tail(rest)

\* s.endswith(suffix)
endswith(s, suffix) ==
    /\ Len(s) >= Len(suffix)
    /\ SubSeq(s, Len(s) - Len(suffix) + 1, Len(s)) = suffix

\* s.startswith(prefix)
startswith(s, prefix) ==
    /\ Len(s) >= Len(prefix)
    /\ SubSeq(s, 1, Len(prefix)) = prefix

\* the value of a non-empty run of decimal digits
RECURSIVE int_digits(_)
int_digits(s) ==
    IF s = << >> THEN 0
    ELSE 10 * int_digits(SubSeq(s, 1, Len(s) - 1))
         + (CHOOSE k \in 0..9 : Digits[k + 1] = s[Len(s)])

\* int(s) raises ValueError: s is not an optional sign followed by digits
int_raises(s) ==
    LET body == IF s # << >> /\ Head(s) \in {"-", "+"} THEN Tail(s) ELSE s
    IN  body = << >> \/ \E i \in 1..Len(body) : body[i] \notin DigitSet

\* int(s), when it does not raise
int(s) ==
    IF s # << >> /\ Head(s) = "-" THEN -int_digits(Tail(s))
    ELSE IF s # << >> /\ Head(s) = "+" THEN int_digits(Tail(s))
    ELSE int_digits(s)

\* [int(component) for component in components]: whether it raises, and
\* the list it gives when it does not
IntList(components) ==
    [ raises |-> \E i \in 1..Len(components) : int_raises(components[i]),
      value  |-> IF \E i \in 1..Len(components) : int_raises(components[i])
                 THEN << >>
                 ELSE [i \in 1..Len(components) |-> int(components[i])] ]

\* extract_components of the archive layout
extract_components(file) ==
    LET components == split(SubSeq(file, 1, Len(file) - 4), "-")
    IN  IF Len(components) = 3
        THEN [ raises |-> int_raises(components[2]) \/ int_raises(components[3]),
               value  |-> IF int_raises(components[2]) \/ int_raises(components[3])
                          THEN << >>
                          ELSE << -int(components[2]), int(components[3]) >> ]
        ELSE IntList(components)

\* the list comprehension of the directory layout, for one file
dir_components(file) ==
    IntList(split(strip(file, {".", "p", "k", "l"}), "-"))

\* the files the archive layout parses
IsRecordFile(file) ==
    /\ endswith(file, << ".", "p", "k", "l" >>)
    /\ ~startswith(file, << "_", "_", "M", "A", "C", "O", "S", "X" >>)

MinOf(S) == CHOOSE m \in S : \A x \in S : m <= x

MaxOfSet(S) == CHOOSE m \in S : \A x \in S : x <= m

\* _read_data: the parsed rows of all files, then offsets and sizes; raises
\* ValueError when an int() does, or when `day_idxs, human_idxs = zip(*rows)`
\* does not unpack into two columns
_read_data(kind, names) ==
    LET rows == IF kind = "dir"
                THEN { dir_components(f) : f \in names }
                ELSE { extract_components(f) : f \in { g \in names : IsRecordFile(g) } }
        failed == \/ \E r \in rows : r.raises
                  \/ rows = {}
                  \/ MinOf({ Len(r.value) : r \in rows }) # 2
        day_idxs   == { r.value[1] : r \in rows }
        human_idxs == { r.value[2] : r \in rows }
    IN  IF failed
        THEN [ raises |-> TRUE, day_idx_offset |-> 0, human_idx_offset |-> 0,
               num_days |-> 0, num_humans |-> 0 ]
        ELSE [ raises |-> FALSE,
               day_idx_offset |-> MinOf(day_idxs),
               human_idx_offset |-> MinOf(human_idxs),
               num_days |-> MaxOfSet(day_idxs) - MinOf(day_idxs) + 1,
               num_humans |-> MaxOfSet(human_idxs) - MinOf(human_idxs) + 1 ]

\* the record files a simulation run leaves under self.path
FileSets ==
    { { file_name(p[1], p[2]) : p \in P } :
        P \in (SUBSET (FileDays \X FileHumans)) \ { {} } }

InitFiles ==
    /\ InitConfigDefault
    /\ path_kind \in {"dir", "zip"}
    /\ files \in FileSets
    /\ constructed = "no"
    /\ num_humans = 0
    /\ num_days = 0
    /\ day_idx_offset = 0
    /\ human_idx_offset = 0
    /\ store = << >>
    /\ opened = << >>
    /\ data = << >>
    /\ InitItemIdle
    /\ InitGetIdle
    /\ InitCollateIdle

\* ContactDataset.__init__: self._read_data()
Construct ==
    /\ constructed = "no"
    /\ \E r \in { _read_data(path_kind, files) } :
          /\ constructed' = IF r.raises THEN "ValueError" ELSE "ok"
          /\ day_idx_offset' = r.day_idx_offset
          /\ human_idx_offset' = r.human_idx_offset
          /\ num_days' = r.num_days
          /\ num_humans' = r.num_humans
    /\ UNCHANGED << store, path_kind, files, opened, data,
                    cfgvars, itemvars, getvars, collvars >>

\* ContactDataset.read(h_idx, d_idx) up to the file name it opens
Open(h_idx, d_idx) ==
    /\ constructed = "ok"
    /\ opened' = file_name(d_idx + day_idx_offset, h_idx + human_idx_offset)
    /\ UNCHANGED << num_humans, num_days, day_idx_offset, store, path_kind, files,
                    human_idx_offset, constructed, data,
                    cfgvars, itemvars, getvars, collvars >>

NextFiles ==
    \/ Construct
    \/ \E h \in 0..(num_humans - 1), d \in 0..(num_days - 1) : Open(h, d)

SpecFiles == InitFiles /\ [][NextFiles]_vars

----------------------------------------------------------------------------
(* Properties of construction *)

\* the (day, human) pairs whose record files are under self.path
Written ==
    { p \in FileDays \X FileHumans : file_name(p[1], p[2]) \in files }

\* C14: in the directory layout and in the archive layout alike, a file name
\* with a negative day component is parsed at construction as that negative
\* day and its human, the day offset becomes the minimum (negative) day, and
\* read(human_idx, 0) builds the name of the file of that day again.
C14_Original ==
    (constructed # "no" /\ \E p \in Written : p[1] < 0) =>
        /\ constructed = "ok"
        /\ day_idx_offset = MinOf({ p[1] : p \in Written })
        /\ human_idx_offset = MinOf({ p[2] : p \in Written })
        /\ \A p \in Written :
              p[1] = day_idx_offset =>
                 file_name(0 + day_idx_offset,
                           (p[2] - human_idx_offset) + human_idx_offset)
                    = file_name(p[1], p[2])
        /\ (opened # << >> /\ opened[1] = "-" /\ Cardinality(Written) =
                num_days * num_humans) => opened \in files

----------------------------------------------------------------------------
(* The legacy loader: ContactDataset of src/loader.py, which holds the     *)
(* whole pickle in self.data and has no filter and no retry loop           *)

MaxLegacyDays == 2

\* the record of day d in the legacy pickle: m encounters of <<partner id,
\* risk message, day>> dated on the days 0..d, the three ground-truth flags,
\* and a reported_symptoms whose rows tell the days apart
LegacyRecord(d, flags, m) ==
    [ candidate_encounters |->
          [i \in 1..m |-> << 256 + i, 16 * i, (d + i) % (d + 1) >>],
      exposure_encounter |-> [i \in 1..m |-> i % 2],
      reported_symptoms |-> [i \in 1..HISTORY_LEN |-> 100 * (d + 1) + i],
      test_results |-> [i \in 1..HISTORY_LEN |-> (d + i) % 2],
      infectiousness |-> [i \in 1..HISTORY_LEN |-> IF flags[2] THEN 1 ELSE 0],
      is_recovered |-> flags[1],
      is_infectious |-> flags[2],
      is_exposed |-> flags[3] ]

\* pickles in which one (human, day) carries the flags under study and every
\* other record has none of them set; every record has an encounter
LegacyData(H, D) ==
    { [h \in 0..(H - 1) |-> [d \in 0..(D - 1) |->
          LegacyRecord(d, IF << h, d >> = c THEN fl ELSE << FALSE, FALSE, FALSE >>, m)]] :
        c \in (0..(H - 1)) \X (0..(D - 1)),
        fl \in BOOLEAN \X BOOLEAN \X BOOLEAN,
        m \in 1..MaxEncounters }

\* the S/E/I/R if-chain of the legacy get and its one-hot encoding
legacy_current_compartment(info) ==
    LET c == IF info.is_recovered THEN "R"
             ELSE IF info.is_infectious THEN "I"
             ELSE IF info.is_exposed THEN "E"
             ELSE "R"
        b(x) == IF x THEN 1 ELSE 0
    IN  << b(c = "S"), b(c = "E"), b(c = "I"), b(c = "R") >>

\* ContactDataset.get(human_idx, day_idx) of src/loader.py
legacy_get(h_idx, d_idx) ==
    LET info == data[h_idx][d_idx]
        enc  == info.candidate_encounters
    IN  [ health_history |->
              [i \in 1..Len(info.reported_symptoms) |->
                  << info.reported_symptoms[i], info.test_results[i] >>],
          infectiousness_history |->
              [i \in 1..Len(info.infectiousness) |-> << info.infectiousness[i] >>],
          history_days |->
              [i \in 1..HISTORY_LEN |-> << Max(d_idx - HISTORY_LEN + i, 0) >>],
          current_compartment |-> legacy_current_compartment(info),
          encounter_health |->
              [i \in 1..Len(enc) |->
                  << data[h_idx][enc[i][3]].reported_symptoms[1],
                     data[h_idx][enc[i][3]].test_results[1] >>],
          encounter_message |-> [i \in 1..Len(enc) |-> UnpackByte(enc[i][2] % 256)],
          encounter_partner_id |-> [i \in 1..Len(enc) |-> UnpackPartnerId(enc[i][1])],
          encounter_day |-> [i \in 1..Len(enc) |-> << enc[i][3] >>],
          encounter_is_contagion |-> info.exposure_encounter ]

InitLegacy ==
    /\ InitConfigDefault
    /\ num_humans \in 1..MaxHumans
    /\ num_days \in 1..MaxLegacyDays
    /\ data \in LegacyData(num_humans, num_days)
    /\ day_idx_offset = 0
    /\ store = << >>
    /\ path_kind = "none"
    /\ files = {}
    /\ human_idx_offset = 0
    /\ constructed = "ok"
    /\ opened = << >>
    /\ InitItemIdle
    /\ InitGetIdle
    /\ InitCollateIdle

\* ContactDataset.__getitem__(item) of src/loader.py
legacy___getitem__(it) ==
    /\ outcome = "none"
    /\ item' = it
    /\ outcome' = "returned"
    /\ sample' = legacy_get(unravel_index(it)[1], unravel_index(it)[2])
    /\ UNCHANGED << human_day_info, pc, human_idx, day_idx, requested_day_idx,
                    num_fetch_attempts, attempts_on_human, result,
                    cfgvars, storevars, collvars >>

NextLegacy == \E it \in 0..(__len__ - 1) : legacy___getitem__(it)

SpecLegacy == InitLegacy /\ [][NextLegacy]_vars

----------------------------------------------------------------------------
(* Properties of the legacy loader *)

\* the record the legacy __getitem__ encoded
LegacyInfo == data[item \div num_days][item % num_days]

\* C17: in the legacy loader, current_compartment is the one-hot vector over
\* (S, E, I, R) chosen by first match in the order is_recovered,
\* is_infectious, is_exposed, and a record with none of the three flags set
\* gives the one-hot label of S.
C17_Original ==
    (data # << >> /\ outcome = "returned") =>
        sample.current_compartment =
            IF LegacyInfo.is_recovered THEN << 0, 0, 0, 1 >>
            ELSE IF LegacyInfo.is_infectious THEN << 0, 0, 1, 0 >>
            ELSE IF LegacyInfo.is_exposed THEN << 0, 1, 0, 0 >>
            ELSE << 1, 0, 0, 0 >>

====
